---- MODULE Spec2Model ----
(***************************************************************************)
(* Document static-testing pages of vishal-qa-hub.                         *)
(*                                                                         *)
(*   pages/Static_Testing.py           analyze_document (rule based)       *)
(*   pages/Static_Testing_Agent_v1.py  rule_based_analysis,                *)
(*                                     llm_based_analysis,                 *)
(*                                     analyze_document (summary report)   *)
(*   pages/Static_Testing_Agent.py     analyze_document (first revision)   *)
(*   pages/Try_email_Gmail.py          send_emails_from_data               *)
(*   pages/Try_email_Outlook.py        send_emails_from_csv                *)
(*                                                                         *)
(* Texts are TLA+ strings, i.e. sequences of characters: Len, \o and       *)
(* SubSeq act on them as on any sequence.  The library calls the pages     *)
(* make on strings (upper, in, split, join, re.findall) are operators      *)
(* that work character by character.                                       *)
(***************************************************************************)
EXTENDS Integers, Sequences, FiniteSets, TLC

VARIABLES
    page,           \* which page's analyze_document is running
    pc,             \* position inside analyze_document
    doc_file,       \* the uploaded file
    analysis_goal,  \* the custom goal text (v1 page)
    document,       \* document.paragraphs as a sequence of paragraph texts
    full_text,      \* "\n".join of the paragraph texts
    rule_defects,   \* result of rule_based_analysis (v1 page)
    llm_response,   \* what the language model answered (v1 page)
    llm_defects,    \* result of the qualitative step (v1 page)
    report_rows,    \* returned summary rows (v1 page)
    defects,        \* returned defect list
    calls,          \* how often each analysis function has been called
    df_details,     \* the defect table main displays
    script,         \* which mailer is running
    mail_pc,        \* position inside the mailer's function
    csv_data,       \* the CSV handed to the mailer
    smtp_port,      \* the port chosen on the Gmail page
    server,         \* the mailer's local `server`: "None", "open" or "quit"
    logged_in,      \* server.login has succeeded
    index,          \* the row of df the loop is at (1-based)
    success_count,  \* rows whose sendmail call succeeded
    fail_messages,  \* the failure messages collected (Gmail) or printed (Outlook)
    log             \* the calls made on the server and the fate of each row, in order

vars == <<page, pc, doc_file, analysis_goal, document, full_text, rule_defects,
          llm_response, llm_defects, report_rows, defects, calls, df_details,
          script, mail_pc, csv_data, smtp_port, server, logged_in, index,
          success_count, fail_messages, log>>

\* the state of the document pages, and the state of the mailers
doc_vars == <<page, pc, doc_file, analysis_goal, document, full_text, rule_defects,
              llm_response, llm_defects, report_rows, defects, calls, df_details>>

mail_vars == <<script, mail_pc, csv_data, smtp_port, server, logged_in, index,
               success_count, fail_messages, log>>

-----------------------------------------------------------------------------
(* Bounds of the model. *)

MaxParagraphs == 2

-----------------------------------------------------------------------------
(* Characters and the string library. *)

LowerLetters == "abcdefghijklmnopqrstuvwxyz"
UpperLetters == "ABCDEFGHIJKLMNOPQRSTUVWXYZ"
DigitChars == "0123456789"

Ch(s, i) == SubSeq(s, i, i)

CharsOf(s) == {Ch(s, i) : i \in 1..Len(s)}

UpperOf == [c \in CharsOf(LowerLetters) |->
              Ch(UpperLetters, CHOOSE i \in 1..Len(LowerLetters) : Ch(LowerLetters, i) = c)]

UpperChar(c) == IF c \in DOMAIN UpperOf THEN UpperOf[c] ELSE c

RECURSIVE UpperRange(_, _, _)
UpperRange(s, lo, hi) ==
    IF lo > hi THEN ""
    ELSE IF lo = hi THEN UpperChar(Ch(s, lo))
    ELSE LET mid == (lo + hi) \div 2
         IN  UpperRange(s, lo, mid) \o UpperRange(s, mid + 1, hi)

\* str.upper()
Upper(s) == UpperRange(s, 1, Len(s))

\* str.find(sub, start) with 1-based positions; 0 when sub does not occur
Find(s, sub, from) ==
    LET hits == {i \in from..(Len(s) - Len(sub) + 1) : SubSeq(s, i, i + Len(sub) - 1) = sub}
    IN  IF hits = {} THEN 0 ELSE CHOOSE i \in hits : \A j \in hits : i <= j

\* sub in s
In(sub, s) == Find(s, sub, 1) # 0

\* s.split(sep)
RECURSIVE Split(_, _)
Split(s, sep) ==
    LET i == Find(s, sep, 1)
    IN  IF i = 0 THEN <<s>>
        ELSE <<SubSeq(s, 1, i - 1)>> \o Split(SubSeq(s, i + Len(sep), Len(s)), sep)

\* sep.join(parts)
RECURSIVE Join(_, _)
Join(sep, parts) ==
    IF parts = <<>> THEN ""
    ELSE IF Len(parts) = 1 THEN parts[1]
    ELSE parts[1] \o sep \o Join(sep, Tail(parts))

\* str(n) for n >= 0
RECURSIVE IntToStr(_)
IntToStr(n) ==
    IF n < 10 THEN Ch(DigitChars, n + 1)
    ELSE IntToStr(n \div 10) \o Ch(DigitChars, (n % 10) + 1)

Whitespace == {" ", "\n", "\t"}

\* a word of s.split() ends at position i of s
EndsWord(s, i) == i = Len(s) \/ Ch(s, i + 1) \in Whitespace

\* the words of s.split() that start in lo..hi: a word starts at a
\* non-whitespace character that follows whitespace or begins s, and runs to
\* the next whitespace or the end of s
RECURSIVE WordsStartingIn(_, _, _)
WordsStartingIn(s, lo, hi) ==
    IF lo > hi THEN <<>>
    ELSE IF lo = hi
    THEN IF Ch(s, lo) \notin Whitespace /\ (lo = 1 \/ Ch(s, lo - 1) \in Whitespace)
         THEN LET e == CHOOSE i \in lo..Len(s) :
                          EndsWord(s, i) /\ \A j \in lo..(i - 1) : ~ EndsWord(s, j)
              IN  <<SubSeq(s, lo, e)>>
         ELSE <<>>
    ELSE LET mid == (lo + hi) \div 2
         IN  WordsStartingIn(s, lo, mid) \o WordsStartingIn(s, mid + 1, hi)

\* s.split(): the maximal runs of non-whitespace characters, in order
SplitWhitespace(s) == WordsStartingIn(s, 1, Len(s))

\* \w of the re module, on the characters the model uses
IsWordChar(c) == c \in CharsOf(LowerLetters) \cup CharsOf(UpperLetters)
                       \cup CharsOf(DigitChars) \cup {"_"}

\* \b at the gap before position i of s (i in 1..Len(s)+1)
WordBoundary(s, i) ==
    LET before == i > 1 /\ IsWordChar(Ch(s, i - 1))
        after == i <= Len(s) /\ IsWordChar(Ch(s, i))
    IN  before # after

\* faulty variant: the \b of a pattern is not honoured
MatchAt_NoBoundary(regex, s, upper_s, upper_literal, i) ==
    LET n == Len(upper_literal)
    IN  /\ i + n - 1 <= Len(s)
        /\ SubSeq(upper_s, i, i + n - 1) = upper_literal

\* A placeholder regex is a literal, optionally wrapped in \b ... \b.
\* Does it match s at position i under re.IGNORECASE?  (upper_s and
\* upper_literal are s and the literal in upper case.)
MatchAt(regex, s, upper_s, upper_literal, i) ==
    LET n == Len(upper_literal)
    IN  /\ i + n - 1 <= Len(s)
        /\ SubSeq(upper_s, i, i + n - 1) = upper_literal
        /\ regex.word => WordBoundary(s, i) /\ WordBoundary(s, i + n)

\* re.findall(regex, s, re.IGNORECASE): the non-overlapping matches, left to right
RECURSIVE FindAllFrom(_, _, _, _, _)
FindAllFrom(regex, s, upper_s, upper_literal, from) ==
    LET hits == {i \in from..Len(s) : MatchAt(regex, s, upper_s, upper_literal, i)}
    IN  IF hits = {} THEN <<>>
        ELSE LET i == CHOOSE h \in hits : \A j \in hits : h <= j
             IN  <<SubSeq(s, i, i + Len(upper_literal) - 1)>>
                 \o FindAllFrom(regex, s, upper_s, upper_literal, i + Len(upper_literal))

FindAll(regex, s) == FindAllFrom(regex, s, Upper(s), Upper(regex.literal), 1)

-----------------------------------------------------------------------------
(* Configuration of the two pages. *)

\* Static_Testing_Agent_v1.py
MANDATORY_SECTIONS ==
    << "Introduction", "Scope of Work", "Assumptions", "Acceptance Criteria",
       "Out of Scope", "Header/Footer Validation", "Mandatory/Optional field" >>

\* Static_Testing.py
Static_MANDATORY_SECTIONS ==
    << "Introduction", "Scope of Work", "Assumptions", "Acceptance Criteria",
       "Out of Scope" >>

Regex(lit, wholeWord) == [literal |-> lit, word |-> wholeWord]

\* Static_Testing_Agent_v1.py: r'\bTBD\b', r'\bTBC\b', r'\bWIP\b', r'\bTODO\b', r'PLACEHOLDER'
PLACEHOLDER_KEYWORDS ==
    << Regex("TBD", TRUE), Regex("TBC", TRUE), Regex("WIP", TRUE),
       Regex("TODO", TRUE), Regex("PLACEHOLDER", FALSE) >>

\* Static_Testing.py: the same and r'INSERT TEXT HERE'
Static_PLACEHOLDER_KEYWORDS ==
    PLACEHOLDER_KEYWORDS \o << Regex("INSERT TEXT HERE", FALSE) >>

MAX_WORDS == 150

\* len(full_text) > MinContentLength runs the qualitative step
MinContentLength == 50

\* Static_Testing_Agent.py: the five sections of Static_Testing.py
Agent_MANDATORY_SECTIONS == Static_MANDATORY_SECTIONS

SectionsOf(pg) ==
    CASE pg = "static" -> Static_MANDATORY_SECTIONS
      [] pg = "agent" -> Agent_MANDATORY_SECTIONS
      [] OTHER -> MANDATORY_SECTIONS

KeywordsOf(pg) == IF pg = "static" THEN Static_PLACEHOLDER_KEYWORDS ELSE PLACEHOLDER_KEYWORDS

-----------------------------------------------------------------------------
(* Defects and the rule-based scans. *)

Defect(type, description, location, severity) ==
    [DefectType |-> type, Description |-> description,
     Location |-> location, Severity |-> severity]

\* "\n".join([p.text for p in document.paragraphs])
FullText(paragraphs) == Join("\n", paragraphs)

\* faulty variant: the comparison without .upper()
SectionMissing_CaseSensitive(section, text) == ~ In(section, text)

\* section.upper() not in full_text.upper()
SectionMissing(section, text) == ~ In(Upper(section), Upper(text))

StructureDescription(pg, section) ==
    IF pg = "static"
    THEN "Missing mandatory section header: '" \o section \o "'"
    ELSE "Missing mandatory section header: '" \o section
         \o "'. This is a severe structural defect."

\* for section in MANDATORY_SECTIONS: ... defects.append(...)
RECURSIVE StructureScan(_, _, _)
StructureScan(pg, text, k) ==
    IF k > Len(SectionsOf(pg)) THEN <<>>
    ELSE LET section == SectionsOf(pg)[k]
             found == IF SectionMissing(section, text)
                      THEN << Defect("Structure/Completeness",
                                     StructureDescription(pg, section),
                                     "Document Structure", "High") >>
                      ELSE <<>>
         IN  found \o StructureScan(pg, text, k + 1)

PlaceholderDescription(pg, match) ==
    IF pg = "static"
    THEN "Placeholder found: '" \o match \o "'. Text requires update."
    ELSE "Found hardcoded placeholder '" \o match \o "'. Must be resolved before submission."

ParagraphLocation(i) == "Paragraph " \o IntToStr(i)

\* faulty variant: one defect per occurrence instead of one per paragraph and pattern
KeywordDefects_PerOccurrence(pg, regex, text, i) ==
    LET matches == FindAll(regex, text)
    IN  [k \in DOMAIN matches |->
            Defect("Content Placeholder", PlaceholderDescription(pg, matches[k]),
                   ParagraphLocation(i), "Medium")]

\* matches = re.findall(keyword_regex, paragraph.text, re.IGNORECASE); if matches: ...
KeywordDefects(pg, regex, text, i) ==
    LET matches == FindAll(regex, text)
    IN  IF matches # <<>>
        THEN << Defect("Content Placeholder", PlaceholderDescription(pg, matches[1]),
                       ParagraphLocation(i), "Medium") >>
        ELSE <<>>

\* for i, paragraph in enumerate(document.paragraphs): for keyword_regex in ...
RECURSIVE PlaceholderScan(_, _, _, _)
PlaceholderScan(pg, paragraphs, i, k) ==
    IF i > Len(paragraphs) THEN <<>>
    ELSE IF k > Len(KeywordsOf(pg)) THEN PlaceholderScan(pg, paragraphs, i + 1, 1)
    ELSE KeywordDefects(pg, KeywordsOf(pg)[k], paragraphs[i], i)
         \o PlaceholderScan(pg, paragraphs, i, k + 1)

\* word_count = len(paragraph.text.split())
WordCount(text) == Len(SplitWhitespace(text))

\* faulty variant: the limit itself already counts as too long
TooLong_AtLimit(word_count) == word_count >= MAX_WORDS

TooLong(word_count) == word_count > MAX_WORDS

\* Static_Testing.py, check 3
RECURSIVE ParagraphLengthScan(_, _)
ParagraphLengthScan(paragraphs, i) ==
    IF i > Len(paragraphs) THEN <<>>
    ELSE LET word_count == WordCount(paragraphs[i])
             found == IF TooLong(word_count)
                      THEN << Defect("Readability",
                                     "Paragraph contains " \o IntToStr(word_count)
                                       \o " words (limit is " \o IntToStr(MAX_WORDS)
                                       \o "). Consider splitting.",
                                     ParagraphLocation(i), "Low") >>
                      ELSE <<>>
         IN  found \o ParagraphLengthScan(paragraphs, i + 1)

\* Static_Testing_Agent_v1.py
RuleBasedAnalysis(paragraphs) ==
    StructureScan("v1", FullText(paragraphs), 1) \o PlaceholderScan("v1", paragraphs, 1, 1)

FileErrorDescription(e) ==
    "Could not process document. Ensure it is a valid .docx file. Error: " \o e

\* Static_Testing.py: the whole of analyze_document
Static_AnalyzeDocument(file) ==
    IF file.kind = "corrupt"
    THEN << Defect("File Error", FileErrorDescription(file.error), "N/A", "Critical") >>
    ELSE LET found == StructureScan("static", FullText(file.paragraphs), 1)
                      \o PlaceholderScan("static", file.paragraphs, 1, 1)
                      \o ParagraphLengthScan(file.paragraphs, 1)
         IN  IF found = <<>>
             THEN << Defect("Quality Status",
                            "No static defects found based on current checks!",
                            "N/A", "Success") >>
             ELSE found

-----------------------------------------------------------------------------
(* Static_Testing_Agent_v1.py: the qualitative step. *)

GoalDefect(goal) ==
    Defect("Custom Goal Check",
           "The Agent focused on the custom goal: '" \o goal
             \o "'. Found that specific data types (e.g., date formats) are not compliant with internal standards.",
           "Data Fields Appendix", "High")

\* The three findings of the simulated reply
MockFindings ==
    << Defect("Clarity",
              "The description of the 'Network_Owner' field in the Scope section is ambiguous. Clarify if it refers to the physical or logical owner.",
              "Scope of Work, Paragraph 3", "High"),
       Defect("Tone",
              "The Conclusion section uses overly casual language ('We think this is fine'). Replace with professional equivalents.",
              "Conclusion", "Low"),
       Defect("Consistency",
              "The acronym 'FDD' is used without definition in the Introduction section.",
              "Introduction", "Medium") >>

\* mock_list, with goal_defect appended when a goal is given
WithGoalDefect(findings, goal) ==
    IF goal # "" THEN Append(findings, GoalDefect(goal)) ELSE findings

ListReply(items) == [kind |-> "list", items |-> items]

\* mock_llm_response_json as the page simulates it
MockReply(goal) == ListReply(WithGoalDefect(MockFindings, goal))

\* json.loads(reply), isinstance(llm_defects, list), and the except branch
LlmError(e) ==
    << Defect("LLM Error (Simulated)",
              "Failed to get qualitative analysis: " \o e
                \o ". (Check API key and SDK installation.)",
              "LLM Agent", "Critical") >>

\* faulty variant: the except branch returns no entry
LlmBasedAnalysis_Swallowed(reply) ==
    IF reply.kind = "list" THEN reply.items ELSE <<>>

LlmBasedAnalysis(reply) ==
    IF reply.kind = "list" THEN reply.items
    ELSE IF reply.kind = "object" THEN LlmError("LLM response did not return a list structure.")
    ELSE LlmError("Expecting value: line 1 column 1 (char 0)")

ContentLengthDefect ==
    Defect("Content Length",
           "Document content is too short (< 50 characters) for meaningful analysis.",
           "N/A", "Medium")

\* if len(full_text) > 50
LongEnough(text) == Len(text) > MinContentLength

-----------------------------------------------------------------------------
(* Static_Testing_Agent_v1.py: consolidation into the summary report. *)

Row(pattern, element, result, remarks) ==
    [Pattern |-> pattern, StructureElement |-> element,
     TestResult |-> result, Remarks |-> remarks]

OfType(ds, types) == SelectSeq(ds, LAMBDA d : d.DefectType \in types)

AnySeverity(ds, severities) == \E k \in DOMAIN ds : ds[k].Severity \in severities

\* faulty variant: the part before "header: '" instead of the part after it
SectionNameOf_FirstPart(description) == Split(Split(description, "header: '")[1], "'. This is")[1]

\* d['Description'].split("header: '")[1].split("'. This is")[0]
SectionNameOf(description) == Split(Split(description, "header: '")[2], "'. This is")[1]

MapSectionNames(ds) == [k \in DOMAIN ds |-> SectionNameOf(ds[k].Description)]

critical_fail_row(e) ==
    [FileName |-> "N/A", Pattern |-> "File Loading", StructureElement |-> "File Loading",
     TestResult |-> "Critical Fail", Remarks |-> FileErrorDescription(e)]

MandatorySectionsRow(rules) ==
    LET missing_sections == OfType(rules, {"Structure/Completeness"})
    IN  IF missing_sections # <<>>
        THEN << Row("Document Structure", "Mandatory Sections", "Fail",
                    "Missing sections: " \o Join(", ", MapSectionNames(missing_sections))) >>
        ELSE << Row("Document Structure", "Mandatory Sections", "Pass",
                    "All mandatory sections are present.") >>

\* faulty variant: counts every rule defect, not only the placeholder defects
PlaceholderRow_CountsAll(rules) ==
    LET placeholder_defects == OfType(rules, {"Content Placeholder"})
    IN  IF placeholder_defects # <<>>
        THEN << Row("Content Quality", "Placeholder Keywords", "Fail",
                    "Found " \o IntToStr(Len(rules))
                      \o " hardcoded placeholders (TBD, WIP, etc.). Fix before finalizing.") >>
        ELSE << Row("Content Quality", "Placeholder Keywords", "Pass",
                    "No hardcoded placeholders found.") >>

\* faulty variant: any rule defect fails the row, not only a placeholder
PlaceholderRow_AnyRuleDefect(rules) ==
    LET placeholder_defects == OfType(rules, {"Content Placeholder"})
    IN  IF rules # <<>>
        THEN << Row("Content Quality", "Placeholder Keywords", "Fail",
                    "Found " \o IntToStr(Len(placeholder_defects))
                      \o " hardcoded placeholders (TBD, WIP, etc.). Fix before finalizing.") >>
        ELSE << Row("Content Quality", "Placeholder Keywords", "Pass",
                    "No hardcoded placeholders found.") >>

PlaceholderRow(rules) ==
    LET placeholder_defects == OfType(rules, {"Content Placeholder"})
    IN  IF placeholder_defects # <<>>
        THEN << Row("Content Quality", "Placeholder Keywords", "Fail",
                    "Found " \o IntToStr(Len(placeholder_defects))
                      \o " hardcoded placeholders (TBD, WIP, etc.). Fix before finalizing.") >>
        ELSE << Row("Content Quality", "Placeholder Keywords", "Pass",
                    "No hardcoded placeholders found.") >>

NotQualitative == {"Custom Goal Check", "LLM Error (Simulated)", "Content Length"}

\* faulty variant: the goal finding is not kept out of the qualitative findings
QualitativeDefects_WithGoal(llm) ==
    SelectSeq(llm, LAMBDA d : d.DefectType \notin {"LLM Error (Simulated)", "Content Length"})

QualitativeDefects(llm) == SelectSeq(llm, LAMBDA d : d.DefectType \notin NotQualitative)

\* faulty variant: the Medium test ahead of the High/Critical test
QualitativeRow_MediumFirst(llm) ==
    LET qualitative_defects == QualitativeDefects(llm)
        found == "Found " \o IntToStr(Len(qualitative_defects)) \o " qualitative defects. "
    IN  IF AnySeverity(qualitative_defects, {"Medium"})
        THEN << Row("Qualitative Analysis", "Clarity & Consistency", "Pass w/ Warnings",
                    found \o "Review Medium severity issues found by the Agent.") >>
        ELSE IF AnySeverity(qualitative_defects, {"High", "Critical"})
        THEN << Row("Qualitative Analysis", "Clarity & Consistency", "Fail",
                    found \o "High severity issues detected in Clarity, Tone, or Consistency.") >>
        ELSE IF OfType(llm, {"Content Length"}) = <<>>
        THEN << Row("Qualitative Analysis", "Clarity & Consistency", "Pass",
                    "Qualitative content (clarity, tone, consistency) appears high quality.") >>
        ELSE <<>>

\* faulty variant: the Pass branch does not look for a Content Length entry
QualitativeRow_PassWhenShort(llm) ==
    LET qualitative_defects == QualitativeDefects(llm)
        found == "Found " \o IntToStr(Len(qualitative_defects)) \o " qualitative defects. "
    IN  IF AnySeverity(qualitative_defects, {"High", "Critical"})
        THEN << Row("Qualitative Analysis", "Clarity & Consistency", "Fail",
                    found \o "High severity issues detected in Clarity, Tone, or Consistency.") >>
        ELSE IF AnySeverity(qualitative_defects, {"Medium"})
        THEN << Row("Qualitative Analysis", "Clarity & Consistency", "Pass w/ Warnings",
                    found \o "Review Medium severity issues found by the Agent.") >>
        ELSE << Row("Qualitative Analysis", "Clarity & Consistency", "Pass",
                    "Qualitative content (clarity, tone, consistency) appears high quality.") >>

QualitativeRow(llm) ==
    LET qualitative_defects == QualitativeDefects(llm)
        found == "Found " \o IntToStr(Len(qualitative_defects)) \o " qualitative defects. "
    IN  IF AnySeverity(qualitative_defects, {"High", "Critical"})
        THEN << Row("Qualitative Analysis", "Clarity & Consistency", "Fail",
                    found \o "High severity issues detected in Clarity, Tone, or Consistency.") >>
        ELSE IF AnySeverity(qualitative_defects, {"Medium"})
        THEN << Row("Qualitative Analysis", "Clarity & Consistency", "Pass w/ Warnings",
                    found \o "Review Medium severity issues found by the Agent.") >>
        ELSE IF /\ ~ AnySeverity(qualitative_defects, {"Medium", "High", "Critical"})
                /\ OfType(llm, {"Content Length"}) = <<>>
        THEN << Row("Qualitative Analysis", "Clarity & Consistency", "Pass",
                    "Qualitative content (clarity, tone, consistency) appears high quality.") >>
        ELSE <<>>

GoalElementName(goal) ==
    IF Len(goal) > 40 THEN "Custom Goal: " \o SubSeq(goal, 1, 40) \o "..."
    ELSE "Custom Goal: " \o goal

\* faulty variant: the test on custom_goal_defects inverted
CustomGoalRow_Inverted(llm, goal) ==
    LET custom_goal_defects == OfType(llm, {"Custom Goal Check"})
    IN  IF goal = "" THEN <<>>
        ELSE IF custom_goal_defects = <<>>
        THEN << Row("Custom Compliance", GoalElementName(goal), "Fail",
                    "Document does not meet the custom analysis goal.") >>
        ELSE << Row("Custom Compliance", GoalElementName(goal), "Pass",
                    "Document meets the custom analysis goal: \"" \o goal \o "\".") >>

\* faulty variant: the Pass remark quotes the shortened goal of the element name
CustomGoalRow_ShortRemark(llm, goal) ==
    LET custom_goal_defects == OfType(llm, {"Custom Goal Check"})
    IN  IF goal = "" THEN <<>>
        ELSE IF custom_goal_defects # <<>>
        THEN << Row("Custom Compliance", GoalElementName(goal), "Fail",
                    custom_goal_defects[1].Description) >>
        ELSE << Row("Custom Compliance", GoalElementName(goal), "Pass",
                    "Document meets the custom analysis goal: \"" \o (IF Len(goal) > 40 THEN SubSeq(goal, 1, 40) ELSE goal) \o "\".") >>

CustomGoalRow(llm, goal) ==
    LET custom_goal_defects == OfType(llm, {"Custom Goal Check"})
    IN  IF goal = "" THEN <<>>
        ELSE IF custom_goal_defects # <<>>
        THEN << Row("Custom Compliance", GoalElementName(goal), "Fail",
                    custom_goal_defects[1].Description) >>
        ELSE << Row("Custom Compliance", GoalElementName(goal), "Pass",
                    "Document meets the custom analysis goal: \"" \o goal \o "\".") >>

\* faulty variant: the content-length entry is not taken for a tool failure
LlmErrors_OnlyErrors(llm) == OfType(llm, {"LLM Error (Simulated)"})

LlmErrors(llm) == OfType(llm, {"LLM Error (Simulated)", "Content Length"})

ToolStatusRow(llm) ==
    LET llm_errors == LlmErrors(llm)
    IN  IF llm_errors # <<>>
        THEN << Row("Tool Status", "LLM Agent", "Critical Fail", llm_errors[1].Description) >>
        ELSE <<>>

\* faulty variant: the Tool Status row is put first
Consolidate_ToolStatusFirst(rules, llm, goal) ==
    ToolStatusRow(llm) \o MandatorySectionsRow(rules) \o PlaceholderRow(rules)
    \o QualitativeRow(llm) \o CustomGoalRow(llm, goal)

\* step 3 of analyze_document: report_rows
Consolidate(rules, llm, goal) ==
    MandatorySectionsRow(rules) \o PlaceholderRow(rules) \o QualitativeRow(llm)
    \o CustomGoalRow(llm, goal) \o ToolStatusRow(llm)

\* faulty variant: the tool failures stay in the detailed list
AllDefects_Unfiltered(rules, llm) == rules \o llm

\* faulty variant: the findings of the language model come first
AllDefects_FindingsFirst(rules, llm) ==
    SelectSeq(llm, LAMBDA d : d.DefectType # "LLM Error (Simulated)"
                              /\ d.DefectType # "Content Length") \o rules

\* all_defects
AllDefects(rules, llm) ==
    rules \o SelectSeq(llm, LAMBDA d : d.DefectType # "LLM Error (Simulated)"
                                       /\ d.DefectType # "Content Length")

-----------------------------------------------------------------------------
(* main of both pages: the detailed table, sorted by severity. *)

severity_order == [Critical |-> 4, High |-> 3, Medium |-> 2, Low |-> 1, Success |-> 0]

\* faulty variant: ascending=False left out
SortBySeverity_Ascending(ds) ==
    LET rows_with(n) == SelectSeq(ds, LAMBDA d : severity_order[d.Severity] = n)
    IN  rows_with(0) \o rows_with(1) \o rows_with(2) \o rows_with(3) \o rows_with(4)

\* df['Sort_Severity'] = df['Severity'].map(severity_order);
\* df.sort_values(by='Sort_Severity', ascending=False): the rows of the
\* highest key first; rows of one key stay in the order of the list
SortBySeverity(ds) ==
    LET rows_with(n) == SelectSeq(ds, LAMBDA d : severity_order[d.Severity] = n)
    IN  rows_with(4) \o rows_with(3) \o rows_with(2) \o rows_with(1) \o rows_with(0)

\* v1 page: the sort is under `if 'Severity' in df_details.columns`, and an
\* empty list makes a table without columns
DetailTable(detail_defects) ==
    IF detail_defects # <<>> THEN SortBySeverity(detail_defects) ELSE detail_defects

-----------------------------------------------------------------------------
(* Inputs: uploaded files, goals and replies of the language model. *)

RECURSIVE Repeat(_, _)
Repeat(s, n) ==
    IF n = 0 THEN ""
    ELSE IF n = 1 THEN s
    ELSE Repeat(s, n \div 2) \o Repeat(s, n - (n \div 2))

\* a paragraph of n one-letter words
Words(n) == IF n = 0 THEN "" ELSE "w" \o Repeat(" w", n - 1)

\* paragraph texts uploaded to the v1 page
Paragraphs ==
    { "scope of work: TBD",
      "Introduction. Scope of Work. Acceptance Criteria.",
      "Header/Footer Validation; Mandatory/Optional field",
      "Assumptions. Out of Scope. Header/Footer Validation. Mandatory/Optional field.",
      "tbd, TBD and wip",
      "TBDs in xPlaceHolder",
      "Draft of the acceptance notes." }

\* paragraph texts uploaded to the Static_Testing.py page, which also checks
\* the paragraph length: some are at the word limit and just over it
Static_Paragraphs ==
    { "scope of work: TBD",
      "Introduction. Scope of Work. Acceptance Criteria.",
      "Assumptions. Out of Scope.",
      "tbd, TBD and wip",
      "TBDs in xPlaceHolder",
      "Please insert text here",
      Words(MAX_WORDS),
      Words(MAX_WORDS + 1) }

SeqsUpTo(S, n) == UNION {[1..k -> S] : k \in 0..n}

FilesOver(pool) ==
    {[kind |-> "docx", paragraphs |-> ps] : ps \in SeqsUpTo(pool, MaxParagraphs)}
    \cup {[kind |-> "corrupt", error |-> "File is not a zip file"]}

Files == FilesOver(Paragraphs)

Static_Files == FilesOver(Static_Paragraphs)

Goals ==
    { "",
      "Verify date formats",
      "Ensure all feature descriptions suit a non-technical audience" }

\* the sub-lists of the simulated findings
FindingLists ==
    {SelectSeq(MockFindings, LAMBDA d : d.DefectType \in keep) :
        keep \in SUBSET {MockFindings[k].DefectType : k \in DOMAIN MockFindings}}

\* What the language model may answer: some of the simulated findings, with a
\* goal finding only when a goal was put to it (the reply the page simulates
\* is the one with all of them); JSON that is no list; text that is no JSON.
Replies(goal) ==
    {ListReply(fs) : fs \in FindingLists}
    \cup {ListReply(WithGoalDefect(fs, goal)) : fs \in FindingLists}
    \cup {MockReply(goal), [kind |-> "object"], [kind |-> "garbage"]}

-----------------------------------------------------------------------------
(* The pages as state machines. *)

NoFile == [kind |-> "none"]

Init ==
    /\ page = "none"
    /\ pc = "idle"
    /\ doc_file = NoFile
    /\ analysis_goal = ""
    /\ document = <<>>
    /\ full_text = ""
    /\ rule_defects = <<>>
    /\ llm_response = NoFile
    /\ llm_defects = <<>>
    /\ report_rows = <<>>
    /\ defects = <<>>
    /\ calls = [rule |-> 0, llm |-> 0]
    /\ df_details = <<>>
    /\ script = "none"
    /\ mail_pc = "idle"
    /\ csv_data = NoFile
    /\ smtp_port = 0
    /\ server = "None"
    /\ logged_in = FALSE
    /\ index = 1
    /\ success_count = 0
    /\ fail_messages = <<>>
    /\ log = <<>>

\* main of Static_Testing.py: defect_list = analyze_document(uploaded_file),
\* then df_defects is sorted by severity and displayed
Static_Submit ==
    /\ pc = "idle"
    /\ \E file \in Static_Files :
         /\ doc_file' = file
         /\ defects' = Static_AnalyzeDocument(file)
         /\ df_details' = SortBySeverity(Static_AnalyzeDocument(file))
         /\ document' = IF file.kind = "docx" THEN file.paragraphs ELSE <<>>
         /\ full_text' = IF file.kind = "docx" THEN FullText(file.paragraphs) ELSE ""
    /\ page' = "static"
    /\ pc' = "done"
    /\ UNCHANGED <<analysis_goal, rule_defects, llm_response, llm_defects, report_rows, calls>>
    /\ UNCHANGED mail_vars

\* main of Static_Testing_Agent_v1.py: analyze_document(uploaded_file, analysis_goal)
V1_Submit ==
    /\ pc = "idle"
    /\ \E file \in Files, goal \in Goals :
         /\ doc_file' = file
         /\ analysis_goal' = goal
    /\ page' = "v1"
    /\ pc' = "load"
    /\ UNCHANGED <<document, full_text, rule_defects, llm_response, llm_defects,
                   report_rows, defects, calls, df_details>>
    /\ UNCHANGED mail_vars

\* faulty variant: the except branch builds the row but does not return
V1_LoadDocument_NoReturn ==
    /\ page = "v1" /\ pc = "load"
    /\ IF doc_file.kind = "corrupt"
       THEN /\ report_rows' = << critical_fail_row(doc_file.error) >>
            /\ UNCHANGED <<document, full_text>>
       ELSE /\ document' = doc_file.paragraphs
            /\ full_text' = FullText(doc_file.paragraphs)
            /\ UNCHANGED report_rows
    /\ pc' = "rules"
    /\ UNCHANGED <<page, doc_file, analysis_goal, rule_defects, llm_response, llm_defects,
                   defects, calls, df_details>>
    /\ UNCHANGED mail_vars

\* 1. Load the document; on an exception return ([critical_fail_row], []),
\* of which main displays the (empty) detailed table
V1_LoadDocument ==
    /\ page = "v1" /\ pc = "load"
    /\ IF doc_file.kind = "corrupt"
       THEN /\ report_rows' = << critical_fail_row(doc_file.error) >>
            /\ defects' = <<>>
            /\ df_details' = DetailTable(<<>>)
            /\ pc' = "done"
            /\ UNCHANGED <<document, full_text>>
       ELSE /\ document' = doc_file.paragraphs
            /\ full_text' = FullText(doc_file.paragraphs)
            /\ pc' = "rules"
            /\ UNCHANGED <<report_rows, defects, df_details>>
    /\ UNCHANGED <<page, doc_file, analysis_goal, rule_defects, llm_response, llm_defects, calls>>
    /\ UNCHANGED mail_vars

\* 2. rule_defects = rule_based_analysis(document)
V1_RuleBasedAnalysis ==
    /\ page = "v1" /\ pc = "rules"
    /\ rule_defects' = RuleBasedAnalysis(document)
    /\ calls' = [calls EXCEPT !.rule = @ + 1]
    /\ pc' = "llm"
    /\ UNCHANGED <<page, doc_file, analysis_goal, document, full_text, llm_response,
                   llm_defects, report_rows, defects, df_details>>
    /\ UNCHANGED mail_vars

\* faulty variant: after a reply that cannot be used the call is made again
V1_LlmBasedAnalysis_Retried ==
    /\ page = "v1" /\ pc = "llm"
    /\ LongEnough(full_text)
    /\ \E reply \in Replies(analysis_goal) :
         /\ llm_response' = reply
         /\ llm_defects' = LlmBasedAnalysis(reply)
         /\ pc' = IF reply.kind = "list" THEN "consolidate" ELSE "llm"
    /\ calls' = [calls EXCEPT !.llm = @ + 1]
    /\ UNCHANGED <<page, doc_file, analysis_goal, document, full_text, rule_defects,
                   report_rows, defects, df_details>>
    /\ UNCHANGED mail_vars

\* if len(full_text) > 50: llm_defects = llm_based_analysis(full_text, analysis_goal)
V1_LlmBasedAnalysis ==
    /\ page = "v1" /\ pc = "llm"
    /\ LongEnough(full_text)
    /\ \E reply \in Replies(analysis_goal) :
         /\ llm_response' = reply
         /\ llm_defects' = LlmBasedAnalysis(reply)
    /\ calls' = [calls EXCEPT !.llm = @ + 1]
    /\ pc' = "consolidate"
    /\ UNCHANGED <<page, doc_file, analysis_goal, document, full_text, rule_defects,
                   report_rows, defects, df_details>>
    /\ UNCHANGED mail_vars

\* else: llm_defects.append({'Defect Type': 'Content Length', ...})
V1_ContentTooShort ==
    /\ page = "v1" /\ pc = "llm"
    /\ ~ LongEnough(full_text)
    /\ llm_defects' = << ContentLengthDefect >>
    /\ pc' = "consolidate"
    /\ UNCHANGED <<page, doc_file, analysis_goal, document, full_text, rule_defects,
                   llm_response, report_rows, defects, calls, df_details>>
    /\ UNCHANGED mail_vars

\* faulty variant: the tool failures are removed from llm_defects in place
V1_Consolidate_InPlace ==
    /\ page = "v1" /\ pc = "consolidate"
    /\ report_rows' = Consolidate(rule_defects, llm_defects, analysis_goal)
    /\ defects' = AllDefects(rule_defects, llm_defects)
    /\ df_details' = DetailTable(AllDefects(rule_defects, llm_defects))
    /\ llm_defects' = SelectSeq(llm_defects, LAMBDA d : d.DefectType # "LLM Error (Simulated)"
                                                        /\ d.DefectType # "Content Length")
    /\ pc' = "done"
    /\ UNCHANGED <<page, doc_file, analysis_goal, document, full_text, rule_defects,
                   llm_response, calls>>
    /\ UNCHANGED mail_vars

\* 3. Consolidate and return report_rows, all_defects, of which main sorts
\* and displays the detailed table
V1_Consolidate ==
    /\ page = "v1" /\ pc = "consolidate"
    /\ report_rows' = Consolidate(rule_defects, llm_defects, analysis_goal)
    /\ defects' = AllDefects(rule_defects, llm_defects)
    /\ df_details' = DetailTable(AllDefects(rule_defects, llm_defects))
    /\ pc' = "done"
    /\ UNCHANGED <<page, doc_file, analysis_goal, document, full_text, rule_defects,
                   llm_response, llm_defects, calls>>
    /\ UNCHANGED mail_vars

Next ==
    \/ Static_Submit
    \/ V1_Submit
    \/ V1_LoadDocument
    \/ V1_RuleBasedAnalysis
    \/ V1_LlmBasedAnalysis
    \/ V1_ContentTooShort
    \/ V1_Consolidate

Spec == Init /\ [][Next]_vars

-----------------------------------------------------------------------------
(* Static_Testing_Agent.py, the first revision of the agent page: one list *)
(* of defects, closed by a Success entry when nothing else is in it.       *)

Agent_RuleBasedAnalysis(paragraphs) ==
    StructureScan("agent", FullText(paragraphs), 1) \o PlaceholderScan("agent", paragraphs, 1, 1)

\* the reply this revision simulates: its third finding is on completeness
Agent_MockReply ==
    ListReply(<< MockFindings[1], MockFindings[2],
                 Defect("Completeness",
                        "The 'Assumptions' section is only one sentence long. A document of this scope requires at least 3-5 explicit, detailed assumptions regarding systems or external dependencies.",
                        "Assumptions Section", "Medium") >>)

Agent_Replies == Replies("") \cup {Agent_MockReply}

\* paragraph texts uploaded to this page
Agent_Paragraphs ==
    { "Introduction. Scope of Work. Acceptance Criteria.",
      "Assumptions. Out of Scope. Header/Footer Validation. Mandatory/Optional field.",
      "tbd, TBD and wip",
      "Draft of the acceptance notes." }

Agent_Files == FilesOver(Agent_Paragraphs)

ContentErrorDefect ==
    Defect("Content Error",
           "Document content is too short to perform meaningful LLM analysis.",
           "N/A", "Medium")

\* 2. Run LLM-Based Checks: what is added to the rule defects
Agent_SecondStep(text, reply) ==
    IF LongEnough(text) THEN LlmBasedAnalysis(reply) ELSE << ContentErrorDefect >>

QualityStatus(description) == Defect("Quality Status", description, "N/A", "Success")

\* faulty variant: the appended Success entry is not removed again
Agent_CloseList_KeepsMarker(found) ==
    IF \A k \in DOMAIN found : found[k].Severity \notin {"High", "Critical"}
    THEN Append(found, QualityStatus("No critical or high-severity defects found by the agent or rules!"))
    ELSE found

\* "If all checks pass": the Success entry is appended, every Success entry
\* is removed, and an empty list gets the 'Perfect!' entry
Agent_CloseList(found) ==
    IF \A k \in DOMAIN found : found[k].Severity \notin {"High", "Critical"}
    THEN LET marked == Append(found, QualityStatus("No critical or high-severity defects found by the agent or rules!"))
             kept == SelectSeq(marked, LAMBDA d : d.Severity # "Success")
         IN  IF kept = <<>>
             THEN << QualityStatus("Perfect! No defects found.") >>
             ELSE kept
    ELSE found

\* the list returned when the document cannot be loaded
Agent_FileError(file) ==
    << Defect("File Error", FileErrorDescription(file.error), "N/A", "Critical") >>

\* main of Static_Testing_Agent.py: defect_list = analyze_document(uploaded_file),
\* the whole of it, then df_defects is sorted by severity and displayed
Agent_Submit ==
    /\ pc = "idle"
    /\ \E file \in Agent_Files :
         LET loaded == file.kind = "docx"
             text == IF loaded THEN FullText(file.paragraphs) ELSE ""
             rules == IF loaded THEN Agent_RuleBasedAnalysis(file.paragraphs) ELSE <<>>
             asked == loaded /\ LongEnough(text)
         IN  \E reply \in (IF asked THEN Agent_Replies ELSE {NoFile}) :
                LET second == IF loaded THEN Agent_SecondStep(text, reply) ELSE <<>>
                    returned == IF loaded THEN Agent_CloseList(rules \o second)
                                ELSE Agent_FileError(file)
                IN  /\ doc_file' = file
                    /\ document' = IF loaded THEN file.paragraphs ELSE <<>>
                    /\ full_text' = text
                    /\ rule_defects' = rules
                    /\ llm_response' = reply
                    /\ llm_defects' = second
                    /\ calls' = [rule |-> IF loaded THEN 1 ELSE 0, llm |-> IF asked THEN 1 ELSE 0]
                    /\ defects' = returned
                    /\ df_details' = SortBySeverity(returned)
    /\ page' = "agent"
    /\ pc' = "done"
    /\ UNCHANGED <<analysis_goal, report_rows>>
    /\ UNCHANGED mail_vars

Agent_Next ==
    \/ Agent_Submit
    \/ Static_Submit

AgentSpec == Init /\ [][Agent_Next]_vars

-----------------------------------------------------------------------------
(* Try_email_Gmail.py and Try_email_Outlook.py: the bulk mailers.           *)

MaxRows == 2

\* A cell of the DataFrame as pd.read_csv gives it: a text, nan for an empty
\* field, or a number when the whole column is numeric.
TextCell(s) == [type |-> "str", value |-> s]
NanCell == [type |-> "float", value |-> "nan"]
NumberCell(n) == [type |-> "int", value |-> n]

\* bool(cell): only the empty text and the number 0 are false; nan is true
Truthy(cell) ==
    CASE cell.type = "str" -> cell.value # ""
      [] cell.type = "float" -> TRUE
      [] cell.type = "int" -> cell.value # 0

\* cell.encode exists: MIMEText(cell, "plain") and the folding of a header
\* with this value raise AttributeError if it does not
HasEncode(cell) == cell.type = "str"

EmailCells == {TextCell("john.doe@example.com"), NanCell, NumberCell(0)}

MessageCells == {TextCell("Please submit your timesheet."), NanCell, NumberCell(0)}

CsvRows == [name : {TextCell("John Doe")}, emailid : EmailCells, message : MessageCells]

\* a column is read as text or as numbers, not as both
OneTypePerColumn(rows) ==
    \A i, j \in DOMAIN rows :
        /\ {rows[i].emailid.type, rows[j].emailid.type} # {"str", "int"}
        /\ {rows[i].message.type, rows[j].message.type} # {"str", "int"}

Tables == {rows \in SeqsUpTo(CsvRows, MaxRows) : OneTypePerColumn(rows)}

\* what can be handed to a mailer: bytes that are no CSV, a table without
\* one of the columns name, emailid, message, and a table with all of them
CsvInputs ==
    {[kind |-> "unreadable"]}
    \cup {[kind |-> "table", columns |-> c, rows |-> rows] :
            c \in {"all", "no emailid"}, rows \in Tables}

Ports == {465, 587}

\* an entry of fail_messages: which f-string it is, and the row it names (0 if none)
Message(kind, row) == [kind |-> kind, row |-> row]

Called(event, row, ok) == [event |-> event, row |-> row, ok |-> ok]

\* main of Try_email_Gmail.py calls send_emails_from_data, which first reads
\* the CSV: return 0, [...] if it cannot be read or lacks a column
Gmail_ReadCsv ==
    /\ script = "none" /\ mail_pc = "idle"
    /\ \E csv \in CsvInputs, port \in Ports :
         /\ csv_data' = csv
         /\ smtp_port' = port
         /\ IF csv.kind = "unreadable"
            THEN /\ fail_messages' = << Message("Error reading CSV file", 0) >>
                 /\ mail_pc' = "returned"
            ELSE IF csv.columns # "all"
            THEN /\ fail_messages' = << Message("CSV is missing one or more mandatory columns", 0) >>
                 /\ mail_pc' = "returned"
            ELSE /\ fail_messages' = <<>>
                 /\ mail_pc' = "connect"
    /\ script' = "gmail"
    /\ UNCHANGED <<server, logged_in, index, success_count, log>>
    /\ UNCHANGED doc_vars

\* smtplib.SMTP_SSL(...) for port 465; smtplib.SMTP(...), ehlo, starttls, ehlo
\* for port 587.  A constructor that raises leaves server = None; starttls
\* raises with the server object made.
Gmail_Connect ==
    /\ script = "gmail" /\ mail_pc = "connect"
    /\ \E outcome \in {"connected", "refused"} \cup (IF smtp_port = 587 THEN {"no tls"} ELSE {}) :
         /\ server' = IF outcome = "refused" THEN "None" ELSE "open"
         /\ log' = Append(log, Called("connect", 0, outcome = "connected"))
         /\ IF outcome = "connected"
            THEN /\ mail_pc' = "login"
                 /\ UNCHANGED fail_messages
            ELSE /\ mail_pc' = "finally"
                 /\ fail_messages' = Append(fail_messages, Message("General connection error", 0))
    /\ UNCHANGED <<script, csv_data, smtp_port, logged_in, index, success_count>>
    /\ UNCHANGED doc_vars

\* for index, row in df.iterrows(): the next row, or the end of the loop
LoopFrom(i) == IF i <= Len(csv_data.rows) THEN "loop" ELSE "finally"

\* server.login(sender_email, app_password)
Gmail_Login ==
    /\ script = "gmail" /\ mail_pc = "login"
    /\ \E outcome \in {"ok", "SMTPAuthenticationError", "SMTPServerDisconnected"} :
         /\ log' = Append(log, Called("login", 0, outcome = "ok"))
         /\ logged_in' = (outcome = "ok")
         /\ CASE outcome = "ok" ->
                   /\ mail_pc' = LoopFrom(1)
                   /\ UNCHANGED fail_messages
              [] outcome = "SMTPAuthenticationError" ->
                   /\ mail_pc' = "finally"
                   /\ fail_messages' = Append(fail_messages, Message("Authentication Error", 0))
              [] OTHER ->
                   /\ mail_pc' = "finally"
                   /\ fail_messages' = Append(fail_messages, Message("General connection error", 0))
    /\ UNCHANGED <<script, csv_data, smtp_port, server, index, success_count>>
    /\ UNCHANGED doc_vars

\* one pass of the loop of send_emails_from_data
Gmail_Row ==
    /\ script = "gmail" /\ mail_pc = "loop"
    /\ LET row == csv_data.rows[index]
       IN  IF ~ Truthy(row.emailid) \/ ~ Truthy(row.message)
           THEN \* if not receiver_email or not body: ... continue
                /\ fail_messages' = Append(fail_messages, Message("Skipped row", index + 1))
                /\ log' = Append(log, Called("skipped", index, TRUE))
                /\ index' = index + 1
                /\ mail_pc' = LoopFrom(index + 1)
                /\ UNCHANGED success_count
           ELSE IF ~ HasEncode(row.message)
           THEN \* msg.attach(MIMEText(body, "plain")) raises outside the inner try
                /\ fail_messages' = Append(fail_messages, Message("General connection error", 0))
                /\ log' = Append(log, Called("MIMEText", index, FALSE))
                /\ mail_pc' = "finally"
                /\ UNCHANGED <<index, success_count>>
           ELSE IF ~ HasEncode(row.emailid)
           THEN \* msg.as_string() raises inside the inner try
                /\ fail_messages' = Append(fail_messages, Message("Failed to send", index))
                /\ log' = Append(log, Called("as_string", index, FALSE))
                /\ index' = index + 1
                /\ mail_pc' = LoopFrom(index + 1)
                /\ UNCHANGED success_count
           ELSE \* server.sendmail(...) is accepted or raises
                \E accepted \in BOOLEAN :
                    /\ log' = Append(log, Called("sendmail", index, accepted))
                    /\ success_count' = IF accepted THEN success_count + 1 ELSE success_count
                    /\ fail_messages' = IF accepted THEN fail_messages
                                        ELSE Append(fail_messages, Message("Failed to send", index))
                    /\ index' = index + 1
                    /\ mail_pc' = LoopFrom(index + 1)
    /\ UNCHANGED <<script, csv_data, smtp_port, server, logged_in>>
    /\ UNCHANGED doc_vars

\* faulty variant: the function returns without server.quit()
Gmail_Finally_NoQuit ==
    /\ script = "gmail" /\ mail_pc = "finally"
    /\ mail_pc' = "returned"
    /\ UNCHANGED <<script, csv_data, smtp_port, server, logged_in, index, success_count,
                   fail_messages, log>>
    /\ UNCHANGED doc_vars

\* finally: if server: server.quit(); then return success_count, fail_messages.
\* An exception of quit leaves the function in place of the return.
Gmail_Finally ==
    /\ script = "gmail" /\ mail_pc = "finally"
    /\ IF server = "open"
       THEN \E closed \in BOOLEAN :
               /\ log' = Append(log, Called("quit", 0, closed))
               /\ server' = "quit"
               /\ mail_pc' = IF closed THEN "returned" ELSE "raised"
       ELSE /\ mail_pc' = "returned"
            /\ UNCHANGED <<server, log>>
    /\ UNCHANGED <<script, csv_data, smtp_port, logged_in, index, success_count, fail_messages>>
    /\ UNCHANGED doc_vars

\* Try_email_Outlook.py, send_emails_from_csv: server = smtplib.SMTP_SSL(...).
\* If it raises, `server` is not bound and the finally clause has nothing to quit.
Outlook_Connect ==
    /\ script = "none" /\ mail_pc = "idle"
    /\ \E csv \in CsvInputs, connected \in BOOLEAN :
         /\ csv_data' = csv
         /\ log' = Append(log, Called("connect", 0, connected))
         /\ server' = IF connected THEN "open" ELSE "None"
         /\ mail_pc' = IF connected THEN "login" ELSE "finally"
         /\ fail_messages' = IF connected THEN fail_messages
                             ELSE Append(fail_messages, Message("An error occurred", 0))
    /\ script' = "outlook"
    /\ UNCHANGED <<smtp_port, logged_in, index, success_count>>
    /\ UNCHANGED doc_vars

\* server.login(sender_email, app_password)
Outlook_Login ==
    /\ script = "outlook" /\ mail_pc = "login"
    /\ \E ok \in BOOLEAN :
         /\ log' = Append(log, Called("login", 0, ok))
         /\ logged_in' = ok
         /\ mail_pc' = IF ok THEN "read" ELSE "finally"
         /\ fail_messages' = IF ok THEN fail_messages
                             ELSE Append(fail_messages, Message("An error occurred", 0))
    /\ UNCHANGED <<script, csv_data, smtp_port, server, index, success_count>>
    /\ UNCHANGED doc_vars

\* df = pd.read_csv(csv_file)
Outlook_ReadCsv ==
    /\ script = "outlook" /\ mail_pc = "read"
    /\ IF csv_data.kind = "unreadable"
       THEN \E missing \in BOOLEAN :
               /\ fail_messages' = Append(fail_messages,
                                          Message(IF missing THEN "Error: The file was not found"
                                                  ELSE "An error occurred", 0))
               /\ mail_pc' = "finally"
       ELSE /\ mail_pc' = LoopFrom(1)
            /\ UNCHANGED fail_messages
    /\ UNCHANGED <<script, csv_data, smtp_port, server, logged_in, index, success_count, log>>
    /\ UNCHANGED doc_vars

\* one pass of the loop of send_emails_from_csv; what it prints on a failure
\* is kept in fail_messages and what it prints on success is counted
Outlook_Row ==
    /\ script = "outlook" /\ mail_pc = "loop"
    /\ LET row == csv_data.rows[index]
       IN  IF csv_data.columns # "all"
           THEN \* row["emailid"] raises KeyError outside the inner try
                /\ fail_messages' = Append(fail_messages, Message("An error occurred", 0))
                /\ log' = Append(log, Called("row", index, FALSE))
                /\ mail_pc' = "finally"
                /\ UNCHANGED <<index, success_count>>
           ELSE IF ~ HasEncode(row.message)
           THEN \* msg.attach(MIMEText(body, "plain")) raises outside the inner try
                /\ fail_messages' = Append(fail_messages, Message("An error occurred", 0))
                /\ log' = Append(log, Called("MIMEText", index, FALSE))
                /\ mail_pc' = "finally"
                /\ UNCHANGED <<index, success_count>>
           ELSE IF ~ HasEncode(row.emailid)
           THEN \* msg.as_string() raises inside the inner try
                /\ fail_messages' = Append(fail_messages, Message("Failed to send email", index))
                /\ log' = Append(log, Called("as_string", index, FALSE))
                /\ index' = index + 1
                /\ mail_pc' = LoopFrom(index + 1)
                /\ UNCHANGED success_count
           ELSE \E accepted \in BOOLEAN :
                    /\ log' = Append(log, Called("sendmail", index, accepted))
                    /\ success_count' = IF accepted THEN success_count + 1 ELSE success_count
                    /\ fail_messages' = IF accepted THEN fail_messages
                                        ELSE Append(fail_messages, Message("Failed to send email", index))
                    /\ index' = index + 1
                    /\ mail_pc' = LoopFrom(index + 1)
    /\ UNCHANGED <<script, csv_data, smtp_port, server, logged_in>>
    /\ UNCHANGED doc_vars

\* finally: if 'server' in locals(): server.quit()
Outlook_Finally ==
    /\ script = "outlook" /\ mail_pc = "finally"
    /\ IF server = "open"
       THEN \E closed \in BOOLEAN :
               /\ log' = Append(log, Called("quit", 0, closed))
               /\ server' = "quit"
               /\ mail_pc' = IF closed THEN "returned" ELSE "raised"
       ELSE /\ mail_pc' = "returned"
            /\ UNCHANGED <<server, log>>
    /\ UNCHANGED <<script, csv_data, smtp_port, logged_in, index, success_count, fail_messages>>
    /\ UNCHANGED doc_vars

Mail_Next ==
    \/ Gmail_ReadCsv
    \/ Gmail_Connect
    \/ Gmail_Login
    \/ Gmail_Row
    \/ Gmail_Finally
    \/ Outlook_Connect
    \/ Outlook_Login
    \/ Outlook_ReadCsv
    \/ Outlook_Row
    \/ Outlook_Finally

MailSpec == Init /\ [][Mail_Next]_vars

-----------------------------------------------------------------------------
(* Vocabulary of the properties, stated on the document itself and not     *)
(* through the operators of the scans.                                     *)

SameLetter(a, b) ==
    \/ a = b
    \/ a \in DOMAIN UpperOf /\ UpperOf[a] = b
    \/ b \in DOMAIN UpperOf /\ UpperOf[b] = a

\* word occurs in text at position i, letter case ignored
OccursAt(word, text, i) ==
    /\ i + Len(word) - 1 <= Len(text)
    /\ \A k \in 1..Len(word) : SameLetter(Ch(text, i + k - 1), Ch(word, k))

OccursIgnoringCase(word, text) == \E i \in 1..Len(text) : OccursAt(word, text, i)

\* the pattern matches the paragraph somewhere: its literal occurs, letter
\* case ignored, and, for a whole-word pattern, with no word character on either side
PatternMatches(regex, text) ==
    \E i \in 1..Len(text) :
        /\ OccursAt(regex.literal, text, i)
        /\ regex.word =>
             /\ i = 1 \/ ~ IsWordChar(Ch(text, i - 1))
             /\ i + Len(regex.literal) > Len(text)
                  \/ ~ IsWordChar(Ch(text, i + Len(regex.literal)))

\* number of whitespace-delimited words
WordsIn(text) ==
    Cardinality({i \in 1..Len(text) :
                    /\ Ch(text, i) \notin Whitespace
                    /\ i = 1 \/ Ch(text, i - 1) \in Whitespace})

Range(f) == {f[k] : k \in DOMAIN f}

Loaded == doc_file.kind = "docx"

\* the rule-based scans of the running page have produced their defects
Scanned ==
    /\ Loaded
    /\ \/ page = "static" /\ pc = "done"
       \/ page = "v1" /\ pc = "llm"

ScanOutput == IF page = "static" THEN defects ELSE rule_defects

SectionsMissingIn(pg, text) ==
    {S \in Range(SectionsOf(pg)) : ~ OccursIgnoringCase(S, text)}

\* the (paragraph, pattern) pairs with a match
PairsMatchingIn(pg, paragraphs) ==
    {pr \in (DOMAIN paragraphs) \X Range(KeywordsOf(pg)) :
        PatternMatches(pr[2], paragraphs[pr[1]])}

\* both, worked out once for each file that can be uploaded to the v1 page
FactsOfFile ==
    [f \in Files |->
        IF f.kind = "docx"
        THEN [missing |-> SectionsMissingIn("v1", FullText(f.paragraphs)),
              matching |-> PairsMatchingIn("v1", f.paragraphs)]
        ELSE [missing |-> {}, matching |-> {}]]

\* the same for the files of the first agent revision
Agent_FactsOfFile ==
    [f \in Agent_Files |->
        IF f.kind = "docx"
        THEN [missing |-> SectionsMissingIn("agent", FullText(f.paragraphs)),
              matching |-> PairsMatchingIn("agent", f.paragraphs)]
        ELSE [missing |-> {}, matching |-> {}]]

MissingSections ==
    CASE page = "v1" -> FactsOfFile[doc_file].missing
      [] page = "agent" -> Agent_FactsOfFile[doc_file].missing
      [] OTHER -> SectionsMissingIn(page, full_text)

MatchingPairs ==
    CASE page = "v1" -> FactsOfFile[doc_file].matching
      [] page = "agent" -> Agent_FactsOfFile[doc_file].matching
      [] OTHER -> PairsMatchingIn(page, document)

Positions(ds, P(_)) == {k \in DOMAIN ds : P(ds[k])}

V1Returned == page = "v1" /\ pc = "done"

V1Analysed == V1Returned /\ Loaded

RowsOf(pattern) == Positions(report_rows, LAMBDA r : r.Pattern = pattern)

\* the summary has exactly one row of this category, with this result
HasRow(pattern, result) ==
    /\ Cardinality(RowsOf(pattern)) = 1
    /\ \A k \in RowsOf(pattern) : report_rows[k].TestResult = result

-----------------------------------------------------------------------------
(* C1 - C3: the rule-based scans. *)

StructureDefectsFor(S) ==
    Positions(ScanOutput, LAMBDA d : /\ d.DefectType = "Structure/Completeness"
                                     /\ In("header: '" \o S \o "'", d.Description))

\* C1: for every configured mandatory section S the structure scan emits
\* exactly one Structure/Completeness defect, of severity High and naming S,
\* when S does not occur (letter case ignored) in the joined text, and none
\* when it does; it emits no other Structure/Completeness defect, so a document
\* with every section has none.
C1_StructureScan ==
    Scanned =>
        /\ \A S \in Range(SectionsOf(page)) :
              IF S \in MissingSections
              THEN /\ Cardinality(StructureDefectsFor(S)) = 1
                   /\ \A k \in StructureDefectsFor(S) : ScanOutput[k].Severity = "High"
              ELSE StructureDefectsFor(S) = {}
        /\ Cardinality(Positions(ScanOutput, LAMBDA d : d.DefectType = "Structure/Completeness"))
             = Cardinality(MissingSections)

\* a section written in another letter case counts as present, next to missing ones
C1_Witness ==
    /\ Scanned
    /\ MissingSections # {}
    /\ \E S \in Range(SectionsOf(page)) : S \notin MissingSections /\ ~ In(S, full_text)

PlaceholderDefectsFor(i, regex) ==
    Positions(ScanOutput,
              LAMBDA d : /\ d.DefectType = "Content Placeholder"
                         /\ d.Location = "Paragraph " \o IntToStr(i)
                         /\ Upper(d.Description)
                              = Upper(PlaceholderDescription(page, regex.literal)))

\* C2: for every paragraph and every configured placeholder pattern the scan
\* emits exactly one Content Placeholder defect if the pattern matches the
\* paragraph at least once and none otherwise, however often it occurs there;
\* the defects of the scan are as many as the matching (paragraph, pattern) pairs.
C2_PlaceholderScan ==
    Scanned =>
        /\ \A i \in DOMAIN document, k \in DOMAIN KeywordsOf(page) :
              Cardinality(PlaceholderDefectsFor(i, KeywordsOf(page)[k]))
                = IF <<i, KeywordsOf(page)[k]>> \in MatchingPairs THEN 1 ELSE 0
        /\ Cardinality(Positions(ScanOutput, LAMBDA d : d.DefectType = "Content Placeholder"))
             = Cardinality(MatchingPairs)

\* one pattern twice in a paragraph, a second pattern in the same paragraph,
\* and the first pattern again in another paragraph
C2_Witness ==
    /\ Scanned
    /\ \E i, j \in DOMAIN document, r1, r2 \in Range(KeywordsOf(page)) :
          /\ i # j /\ r1 # r2
          /\ Len(FindAll(r1, document[i])) >= 2
          /\ {<<i, r1>>, <<i, r2>>, <<j, r1>>} \subseteq MatchingPairs

ReadabilityDefectsFor(i) ==
    Positions(defects, LAMBDA d : /\ d.DefectType = "Readability"
                                  /\ d.Location = "Paragraph " \o IntToStr(i))

\* C3: in Static_Testing.py, a paragraph of w whitespace-delimited words gets
\* exactly one Readability defect, of severity Low, if w > 150 and none
\* otherwise; w = 150 gives none.
C3_ParagraphLength ==
    (page = "static" /\ pc = "done" /\ Loaded) =>
        \A i \in DOMAIN document :
            IF WordsIn(document[i]) > 150
            THEN /\ Cardinality(ReadabilityDefectsFor(i)) = 1
                 /\ \A k \in ReadabilityDefectsFor(i) : defects[k].Severity = "Low"
            ELSE ReadabilityDefectsFor(i) = {}

\* a paragraph of exactly 150 words next to one of 151
C3_Witness ==
    /\ page = "static" /\ pc = "done" /\ Loaded
    /\ \E i, j \in DOMAIN document :
          /\ WordsIn(document[i]) = 150 /\ ReadabilityDefectsFor(i) = {}
          /\ WordsIn(document[j]) = 151 /\ ReadabilityDefectsFor(j) # {}

-----------------------------------------------------------------------------
(* C4 - C10: the summary report of Static_Testing_Agent_v1.py. *)

\* the summary category a defect is reported under
DefectCategory(d) ==
    CASE d.DefectType = "Structure/Completeness" -> "Document Structure"
      [] d.DefectType = "Content Placeholder" -> "Content Quality"
      [] d.DefectType = "Custom Goal Check" -> "Custom Compliance"
      [] d.DefectType \in {"LLM Error (Simulated)", "Content Length"} -> "Tool Status"
      [] OTHER -> "Qualitative Analysis"

\* the spec's name for the category of a summary row
CategoryOf(pattern) ==
    CASE pattern = "Document Structure" -> "DocumentStructure"
      [] pattern = "Content Quality" -> "ContentQuality"
      [] pattern = "Qualitative Analysis" -> "QualitativeAnalysis"
      [] pattern = "Custom Compliance" -> "CustomGoal"
      [] pattern \in {"Tool Status", "File Loading"} -> "ToolStatus"

Collected == rule_defects \o llm_defects

SevereIn(pattern) ==
    Positions(Collected, LAMBDA d : /\ DefectCategory(d) = pattern
                                    /\ d.Severity \in {"High", "Critical"})

SummaryPatterns ==
    {"Document Structure", "Content Quality", "Qualitative Analysis",
     "Custom Compliance", "Tool Status"}

\* C4: in every summary report of a loaded document, a category with a defect
\* of severity High or Critical has a summary row, and no row of that category
\* is Pass or Pass w/ Warnings.
C4_WorstCaseWins ==
    V1Analysed =>
        \A pattern \in SummaryPatterns :
            SevereIn(pattern) # {} =>
                /\ RowsOf(pattern) # {}
                /\ \A k \in RowsOf(pattern) :
                      report_rows[k].TestResult \notin {"Pass", "Pass w/ Warnings"}

\* a High finding together with a Medium one in the qualitative category
C4_Witness ==
    /\ V1Analysed
    /\ SevereIn("Qualitative Analysis") # {}
    /\ \E k \in DOMAIN llm_defects :
          DefectCategory(llm_defects[k]) = "Qualitative Analysis"
          /\ llm_defects[k].Severity = "Medium"

\* C5: when loading the document fails, analyze_document returns exactly one
\* summary row, of category ToolStatus and result Critical Fail, and an empty
\* defect list, and neither the rule-based scans nor the language model ran.
C5_LoadFailure ==
    (page = "v1" /\ doc_file.kind = "corrupt") =>
        /\ calls.rule = 0 /\ calls.llm = 0
        /\ rule_defects = <<>> /\ llm_defects = <<>>
        /\ pc \in {"load", "done"}
        /\ pc = "done" =>
             /\ Len(report_rows) = 1
             /\ CategoryOf(report_rows[1].Pattern) = "ToolStatus"
             /\ report_rows[1].TestResult = "Critical Fail"
             /\ defects = <<>>

C5_Witness == V1Returned /\ doc_file.kind = "corrupt" /\ report_rows # <<>>

\* C6: when the loaded text is shorter than 50 characters the language model
\* is not called, the summary has a Tool Status row with result Critical Fail
\* and a too-short remark, and the Document Structure and Content Quality
\* rows are present with the results the document's sections and
\* placeholders give them.
C6_ContentTooShort ==
    (V1Analysed /\ Len(full_text) < 50) =>
        /\ calls.llm = 0
        /\ HasRow("Tool Status", "Critical Fail")
        /\ \A k \in RowsOf("Tool Status") : In("too short", report_rows[k].Remarks)
        /\ HasRow("Document Structure", IF MissingSections # {} THEN "Fail" ELSE "Pass")
        /\ HasRow("Content Quality", IF MatchingPairs # {} THEN "Fail" ELSE "Pass")

\* a text of 30 characters
C6_Witness == V1Analysed /\ Len(full_text) = 30

\* C7 (as claimed): the qualitative step is skipped only below 50 characters;
\* a loaded text of exactly 50 characters has the language model called and,
\* if its reply is usable, no Tool Status row.
C7_MinimumLengthBoundary ==
    V1Analysed =>
        /\ calls.llm = 0 => Len(full_text) < 50
        /\ Len(full_text) = 50 =>
             /\ calls.llm = 1
             /\ llm_response.kind = "list" => RowsOf("Tool Status") = {}

\* C8: a loaded document with every mandatory section, no placeholder match
\* and more than 50 characters, for which the language model returns an empty
\* list, gets summary rows that are all Pass and an empty defect list.
C8_CleanDocument ==
    (/\ V1Analysed
     /\ MissingSections = {}
     /\ MatchingPairs = {}
     /\ Len(full_text) > 50
     /\ llm_response = ListReply(<<>>)) =>
        /\ report_rows # <<>>
        /\ \A k \in DOMAIN report_rows : report_rows[k].TestResult = "Pass"
        /\ defects = <<>>

\* such a document, analysed with a custom goal
C8_Witness ==
    /\ V1Analysed
    /\ MissingSections = {}
    /\ MatchingPairs = {}
    /\ Len(full_text) > 50
    /\ llm_response = ListReply(<<>>)
    /\ analysis_goal # ""

\* C9: after a successful load the Document Structure row is Fail if and only
\* if a Structure/Completeness defect exists, and then its remarks name every
\* missing mandatory section and no present one; otherwise the row is Pass.
C9_DocumentStructureRow ==
    V1Analysed =>
        IF Positions(defects, LAMBDA d : d.DefectType = "Structure/Completeness") # {}
        THEN /\ HasRow("Document Structure", "Fail")
             /\ \A k \in RowsOf("Document Structure"), S \in Range(MANDATORY_SECTIONS) :
                   In(S, report_rows[k].Remarks) <=> S \in MissingSections
        ELSE HasRow("Document Structure", "Pass")

\* exactly Assumptions and Out of Scope are missing
C9_Witness ==
    /\ V1Analysed
    /\ MissingSections = {"Assumptions", "Out of Scope"}
    /\ HasRow("Document Structure", "Fail")

\* C10: after a successful load the Content Quality row is Fail if and only
\* if a Content Placeholder defect exists, and then its remarks state the
\* number of such defects, one per matching pattern per paragraph; otherwise
\* the row is Pass.
C10_ContentQualityRow ==
    V1Analysed =>
        LET found == Positions(defects, LAMBDA d : d.DefectType = "Content Placeholder")
        IN  IF found # {}
            THEN /\ HasRow("Content Quality", "Fail")
                 /\ Cardinality(found) = Cardinality(MatchingPairs)
                 /\ \A k \in RowsOf("Content Quality") :
                       In("Found " \o IntToStr(Cardinality(found)) \o " hardcoded placeholders",
                          report_rows[k].Remarks)
            ELSE HasRow("Content Quality", "Pass")

\* several placeholder defects next to a missing section
C10_Witness ==
    /\ V1Analysed
    /\ Cardinality(MatchingPairs) >= 3
    /\ MissingSections # {}
    /\ HasRow("Content Quality", "Fail")

-----------------------------------------------------------------------------
(* C11 - C15: the rows of the summary report, continued. *)

\* the findings the language model returned that are neither the goal
\* finding nor a tool failure
QualitativeFindings ==
    Positions(llm_defects, LAMBDA d : DefectCategory(d) = "Qualitative Analysis")

QualitativeSeverities == {llm_defects[k].Severity : k \in QualitativeFindings}

\* llm_based_analysis was called
QualitativeRan == V1Analysed /\ calls.llm = 1

\* C11: when the qualitative analysis ran, the Qualitative Analysis row is
\* Fail if a qualitative finding has severity High or Critical, Pass w/
\* Warnings if none has and one is Medium, and Pass if there is no
\* qualitative finding.
C11_QualitativeRow ==
    QualitativeRan =>
        /\ QualitativeSeverities \cap {"High", "Critical"} # {}
             => HasRow("Qualitative Analysis", "Fail")
        /\ (QualitativeSeverities \cap {"High", "Critical"} = {}
            /\ "Medium" \in QualitativeSeverities)
             => HasRow("Qualitative Analysis", "Pass w/ Warnings")
        /\ QualitativeFindings = {} => HasRow("Qualitative Analysis", "Pass")

\* Medium and Low findings without a High one, next to a High goal finding
C11_Witness ==
    /\ QualitativeRan
    /\ QualitativeSeverities = {"Medium", "Low"}
    /\ SevereIn("Custom Compliance") # {}
    /\ HasRow("Qualitative Analysis", "Pass w/ Warnings")

GoalFindings == Positions(llm_defects, LAMBDA d : d.DefectType = "Custom Goal Check")

\* C12: the summary has a Custom Compliance row if and only if the document
\* loaded and the goal is not empty; there is one such row, which is Fail if
\* the language model returned a goal finding, and otherwise Pass with a
\* remark that contains the goal text.
C12_CustomGoalRow ==
    V1Returned =>
        /\ RowsOf("Custom Compliance") # {} <=> (Loaded /\ analysis_goal # "")
        /\ RowsOf("Custom Compliance") # {} =>
             IF GoalFindings # {}
             THEN HasRow("Custom Compliance", "Fail")
             ELSE /\ HasRow("Custom Compliance", "Pass")
                  /\ \A k \in RowsOf("Custom Compliance") :
                        In(analysis_goal, report_rows[k].Remarks)

\* a goal of more than 40 characters that the document meets
C12_Witness ==
    /\ V1Analysed
    /\ Len(analysis_goal) > 40
    /\ GoalFindings = {}
    /\ HasRow("Custom Compliance", "Pass")


NoneCollected(pattern) ==
    Positions(Collected, LAMBDA d : DefectCategory(d) = pattern) = {}

\* C13 as stated: every category the summary reports on (Document Structure,
\* Content Quality, Qualitative Analysis, and Custom Compliance when a goal
\* was given) has, when no defect of it was collected, exactly one row, with
\* result Pass.
C13_ZeroDefectsPass_AsStated ==
    V1Analysed =>
        \A pattern \in SummaryPatterns \ {"Tool Status"} :
            (NoneCollected(pattern)
             /\ (pattern = "Custom Compliance" => analysis_goal # ""))
                => HasRow(pattern, "Pass")

\* C13: a category of which no defect was collected has no row that is Fail,
\* Pass w/ Warnings or Critical Fail. Its row is present with result Pass for
\* Document Structure and Content Quality always, for Qualitative Analysis
\* when the qualitative step ran, and for Custom Compliance when a goal was
\* given; it is omitted for Qualitative Analysis when the content was too
\* short for the step, for Custom Compliance without a goal, and for Tool
\* Status.
C13_ZeroDefectsPass ==
    V1Analysed =>
        \A pattern \in SummaryPatterns :
            NoneCollected(pattern) =>
                IF \/ pattern \in {"Document Structure", "Content Quality"}
                   \/ pattern = "Qualitative Analysis" /\ calls.llm = 1
                   \/ pattern = "Custom Compliance" /\ analysis_goal # ""
                THEN HasRow(pattern, "Pass")
                ELSE RowsOf(pattern) = {}

\* a short document without placeholders: Content Quality is Pass and the
\* Qualitative Analysis row is left out
C13_Witness ==
    /\ V1Analysed
    /\ calls.llm = 0
    /\ NoneCollected("Content Quality") /\ HasRow("Content Quality", "Pass")
    /\ NoneCollected("Qualitative Analysis") /\ RowsOf("Qualitative Analysis") = {}
    /\ ~ NoneCollected("Document Structure")

RowOrder ==
    << "Document Structure", "Content Quality", "Qualitative Analysis",
       "Custom Compliance", "Tool Status" >>

PlaceInOrder(pattern) == CHOOSE n \in DOMAIN RowOrder : RowOrder[n] = pattern

\* C14: the summary of a loaded document has at most one row per category,
\* the rows come in the order Document Structure, Content Quality,
\* Qualitative Analysis, Custom Compliance, Tool Status, and the Document
\* Structure and Content Quality rows are always there.
C14_OneRowPerCategory ==
    V1Analysed =>
        /\ \A k \in DOMAIN report_rows : report_rows[k].Pattern \in Range(RowOrder)
        /\ \A j, k \in DOMAIN report_rows :
              j < k => PlaceInOrder(report_rows[j].Pattern)
                         < PlaceInOrder(report_rows[k].Pattern)
        /\ RowsOf("Document Structure") # {}
        /\ RowsOf("Content Quality") # {}

\* all five rows at once: a goal, and a reply that could not be read
C14_Witness ==
    /\ V1Analysed
    /\ Len(report_rows) = 5
    /\ \A pattern \in Range(RowOrder) : RowsOf(pattern) # {}

\* C15: the consolidation step leaves the defect lists and the goal it reads
\* as they were, so that consolidating again what it has left gives the very
\* rows it has just returned.
C15_ConsolidateIdempotent ==
    [][(page = "v1" /\ pc = "consolidate" /\ pc' = "done") =>
          /\ rule_defects' = rule_defects
          /\ llm_defects' = llm_defects
          /\ analysis_goal' = analysis_goal
          /\ Consolidate(rule_defects', llm_defects', analysis_goal') = report_rows']_vars

\* consolidation has run on lists that hold rule defects, a goal finding and
\* a tool failure
C15_Witness ==
    /\ V1Analysed
    /\ rule_defects # <<>>
    /\ ~ NoneCollected("Tool Status")
    /\ analysis_goal # ""
    /\ Len(report_rows) >= 4

-----------------------------------------------------------------------------
(* C16: whole-word matching of the placeholder tokens. *)

PlaceholderTokens == {"TBD", "TBC", "WIP", "TODO", "PLACEHOLDER"}

\* for each paragraph text that can be uploaded: the tokens that occur in it,
\* and those that occur in it as a whole word
TokensOfParagraph ==
    [p \in Paragraphs \cup Static_Paragraphs |->
        [anywhere |-> {T \in PlaceholderTokens : OccursIgnoringCase(T, p)},
         whole |-> {T \in PlaceholderTokens :
                       PatternMatches([literal |-> T, word |-> TRUE], p)}]]

\* the token occurs in paragraph i, and only inside longer words
OnlyEmbedded(T, i) ==
    /\ T \in TokensOfParagraph[document[i]].anywhere
    /\ T \notin TokensOfParagraph[document[i]].whole

\* the Content Placeholder defects for paragraph i that quote token T
TokenDefectsFor(i, T) ==
    Positions(ScanOutput, LAMBDA d : /\ d.DefectType = "Content Placeholder"
                                     /\ d.Location = "Paragraph " \o IntToStr(i)
                                     /\ OccursIgnoringCase("'" \o T \o "'", d.Description))

PlaceholderDefectsWellFormed ==
    \A k \in DOMAIN ScanOutput :
        ScanOutput[k].DefectType = "Content Placeholder" =>
            /\ ScanOutput[k].Severity = "Medium"
            /\ \E i \in DOMAIN document :
                  ScanOutput[k].Location = "Paragraph " \o IntToStr(i)

\* C16 as stated: a paragraph in which one of the tokens TBD, TBC, WIP, TODO,
\* PLACEHOLDER occurs only inside a longer word gets no Content Placeholder
\* defect for that token; every Content Placeholder defect has severity
\* Medium and the 1-based index of a paragraph as its location.
C16_WholeWord_AsStated ==
    Scanned =>
        /\ \A i \in DOMAIN document, T \in PlaceholderTokens :
              OnlyEmbedded(T, i) => TokenDefectsFor(i, T) = {}
        /\ PlaceholderDefectsWellFormed

\* C16: TBD, TBC, WIP and TODO are matched, letter case ignored, only as
\* whole words: a paragraph in which one of them occurs only inside a longer
\* word gets no Content Placeholder defect for it. PLACEHOLDER is matched,
\* letter case ignored, wherever it occurs, also inside a longer word, and
\* gives one defect. Every Content Placeholder defect has severity Medium and
\* the 1-based index of a paragraph as its location.
C16_WholeWord ==
    Scanned =>
        /\ \A i \in DOMAIN document, T \in PlaceholderTokens \ {"PLACEHOLDER"} :
              OnlyEmbedded(T, i) => TokenDefectsFor(i, T) = {}
        /\ \A i \in DOMAIN document :
              Cardinality(TokenDefectsFor(i, "PLACEHOLDER"))
                = IF "PLACEHOLDER" \in TokensOfParagraph[document[i]].anywhere
                  THEN 1 ELSE 0
        /\ PlaceholderDefectsWellFormed

\* the second of two paragraphs has TBD only inside "TBDs" and PLACEHOLDER
\* only inside "xPlaceHolder"
C16_Witness ==
    /\ Scanned
    /\ Len(document) = 2
    /\ OnlyEmbedded("TBD", 2) /\ TokenDefectsFor(2, "TBD") = {}
    /\ OnlyEmbedded("PLACEHOLDER", 2) /\ TokenDefectsFor(2, "PLACEHOLDER") # {}

-----------------------------------------------------------------------------
(* C17 - C19: failures of a step. *)

\* the reply of the language model could not be used: llm_based_analysis
\* went through its except branch
ReplyFailed == V1Analysed /\ calls.llm = 1 /\ llm_response.kind # "list"

ToolFailures(ds) == Positions(ds, LAMBDA d : DefectCategory(d) = "Tool Status")

\* the results of the structure scan and of the placeholder scan are in the
\* summary and in the returned defect list
RuleStepsContributed ==
    /\ HasRow("Document Structure", IF MissingSections # {} THEN "Fail" ELSE "Pass")
    /\ HasRow("Content Quality", IF MatchingPairs # {} THEN "Fail" ELSE "Pass")
    /\ \A k \in DOMAIN rule_defects : defects[k] = rule_defects[k]

\* C17 as stated: when the qualitative step fails, the other steps still
\* contribute their results and the failure is recorded as a tool failure
\* defect of severity Medium.
C17_StepFailure_AsStated ==
    ReplyFailed =>
        /\ RuleStepsContributed
        /\ \E k \in ToolFailures(Collected \o defects) :
              (Collected \o defects)[k].Severity = "Medium"

\* C17: when the qualitative step fails, the run still ends with the results
\* of the structure and placeholder scans in the summary and in the defect
\* list, and the failure is recorded as one tool failure entry of severity
\* Critical with location LLM Agent, which is reported as the Tool Status
\* row, Critical Fail, and is kept out of the returned defect list.
C17_StepFailure ==
    ReplyFailed =>
        /\ RuleStepsContributed
        /\ Len(llm_defects) = 1
        /\ ToolFailures(llm_defects) = {1}
        /\ llm_defects[1].Severity = "Critical"
        /\ llm_defects[1].Location = "LLM Agent"
        /\ HasRow("Tool Status", "Critical Fail")
        /\ ToolFailures(defects) = {}
        /\ Len(defects) = Len(rule_defects)

\* a failed reply on a document with missing sections and placeholders
C17_Witness ==
    /\ ReplyFailed
    /\ MissingSections # {}
    /\ MatchingPairs # {}
    /\ Len(defects) >= 2


\* C18: llm_based_analysis is called at most once in a run, and not at all
\* when the document did not load or its text has fewer than 50 characters;
\* after a reply that cannot be used the run goes on to consolidation with
\* that one call, the failure being one tool failure entry, and the returned
\* summary reports it in its Tool Status row.
C18_CallDiscipline ==
    /\ calls.llm \in {0, 1}
    /\ (page = "v1" /\ pc \in {"consolidate", "done"}
        /\ (doc_file.kind = "corrupt" \/ Len(full_text) < 50))
          => calls.llm = 0
    /\ llm_response \notin {NoFile} /\ llm_response.kind # "list" =>
          /\ pc \in {"consolidate", "done"}
          /\ calls.llm = 1
          /\ Len(llm_defects) = 1 /\ llm_defects[1].DefectType = "LLM Error (Simulated)"
          /\ pc = "done" =>
                /\ HasRow("Tool Status", "Critical Fail")
                /\ \A k \in RowsOf("Tool Status") :
                      In("Failed to get qualitative analysis", report_rows[k].Remarks)

\* a run has returned after the one call gave something that is not a list
C18_Witness ==
    /\ V1Returned
    /\ calls.llm = 1
    /\ llm_response.kind = "object"
    /\ RowsOf("Tool Status") # {}


FailureKinds == {"InputFormatError", "CollaboratorFailure", "ContentTooShort"}

Occurred(failure) ==
    CASE failure = "InputFormatError" -> doc_file.kind = "corrupt"
      [] failure = "CollaboratorFailure" -> Loaded /\ llm_response.kind \notin {"none", "list"}
      [] failure = "ContentTooShort" -> Loaded /\ Len(full_text) < 50

\* the summary rows and the detailed defects that report the failure
RowsReporting(failure) ==
    CASE failure = "InputFormatError" ->
            Positions(report_rows, LAMBDA r : In("Could not process document", r.Remarks))
      [] failure = "CollaboratorFailure" ->
            Positions(report_rows, LAMBDA r : In("Failed to get qualitative analysis", r.Remarks))
      [] failure = "ContentTooShort" ->
            Positions(report_rows, LAMBDA r : In("content is too short", r.Remarks))

DefectsReporting(failure) ==
    CASE failure = "InputFormatError" ->
            Positions(defects, LAMBDA d : d.DefectType = "File Error")
      [] failure = "CollaboratorFailure" ->
            Positions(defects, LAMBDA d : d.DefectType = "LLM Error (Simulated)")
      [] failure = "ContentTooShort" ->
            Positions(defects, LAMBDA d : d.DefectType = "Content Length")

\* C19: for each kind of failure that occurs in a run (the document cannot be
\* read, the language model's reply cannot be used, the text has fewer than
\* 50 characters) the summary rows and the defect list returned hold, taken
\* together, exactly one entry that reports it.
C19_NoErrorDropped ==
    V1Returned =>
        \A failure \in FailureKinds :
            Occurred(failure) =>
                Cardinality(RowsReporting(failure))
                  + Cardinality(DefectsReporting(failure)) = 1

\* a document of fewer than 50 characters, reported by one row and by no defect
C19_Witness ==
    /\ V1Returned
    /\ Occurred("ContentTooShort")
    /\ Cardinality(RowsReporting("ContentTooShort")) = 1
    /\ DefectsReporting("ContentTooShort") = {}
    /\ defects # <<>>

-----------------------------------------------------------------------------
(* C20: the order of the displayed defect list. *)

SeverityScale == << "Critical", "High", "Medium", "Low", "Success" >>

\* 1 for Critical ... 5 for Success
ScalePlace(severity) == CHOOSE n \in DOMAIN SeverityScale : SeverityScale[n] = severity

CountOf(d, ds) == Cardinality({k \in DOMAIN ds : ds[k] = d})

\* C20: on both pages the displayed defect list holds the returned defects,
\* each as often as it was returned, in an order in which no defect comes
\* before one of a higher severity, under Critical > High > Medium > Low >
\* Success.
C20_SeverityOrdering ==
    pc = "done" =>
        /\ Len(df_details) = Len(defects)
        /\ \A d \in Range(defects) \cup Range(df_details) :
              CountOf(d, df_details) = CountOf(d, defects)
        /\ \A j, k \in DOMAIN df_details :
              j < k => ScalePlace(df_details[j].Severity) <= ScalePlace(df_details[k].Severity)

\* defects of three severities that were not returned in the displayed order
C20_Witness ==
    /\ pc = "done"
    /\ df_details # defects
    /\ {"High", "Medium", "Low"} \subseteq {df_details[k].Severity : k \in DOMAIN df_details}

-----------------------------------------------------------------------------
(* C22 - C23: presence of the Qualitative Analysis row, and the detailed   *)
(* defect list.                                                            *)

\* C22: the summary of a loaded document has a Qualitative Analysis row, and
\* just one, if and only if the qualitative step ran, which it did for every
\* text of more than 50 characters and for none of fewer than 50; when every
\* qualitative finding is Low the row is Pass, and when the step did not run
\* there is no such row.
C22_QualitativeRowPresence ==
    V1Analysed =>
        /\ Cardinality(RowsOf("Qualitative Analysis")) = IF calls.llm = 1 THEN 1 ELSE 0
        /\ Len(full_text) > 50 => calls.llm = 1
        /\ Len(full_text) < 50 => calls.llm = 0
        /\ (calls.llm = 1 /\ QualitativeSeverities = {"Low"})
              => HasRow("Qualitative Analysis", "Pass")

\* the only qualitative finding of a run is of severity Low
C22_Witness ==
    /\ QualitativeRan
    /\ QualitativeSeverities = {"Low"}
    /\ HasRow("Qualitative Analysis", "Pass")

\* what the language model returned, when it returned a list
ReturnedFindings == IF llm_response.kind = "list" THEN llm_response.items ELSE <<>>

\* C23: the defect list returned for a loaded document is the rule defects in
\* the order of their creation followed by the findings the language model
\* returned in their order, with no tool failure entry in it; a tool failure
\* shows in the Tool Status row only.
C23_DetailedDefects ==
    V1Analysed =>
        /\ defects = rule_defects \o ReturnedFindings
        /\ ToolFailures(defects) = {}
        /\ ToolFailures(llm_defects) # {} <=> RowsOf("Tool Status") # {}

\* rule defects followed by findings, and no tool failure
C23_Witness ==
    /\ V1Analysed
    /\ rule_defects # <<>>
    /\ Len(ReturnedFindings) >= 2
    /\ Len(defects) = Len(rule_defects) + Len(ReturnedFindings)

-----------------------------------------------------------------------------
(* C24: the Success entry of Static_Testing_Agent.py and Static_Testing.py. *)

SuccessEntries == Positions(defects, LAMBDA d : d.Severity = "Success")

\* what the checks of the page have found in the document
FoundByChecks ==
    IF page = "agent" THEN rule_defects \o llm_defects
    ELSE SelectSeq(defects, LAMBDA d : d.Severity # "Success")

\* something is wrong with the document, as seen on the document itself
SomethingWrong ==
    \/ ~ Loaded
    \/ MissingSections # {}
    \/ MatchingPairs # {}
    \/ page = "agent" /\ Len(full_text) < 50
    \/ page = "agent" /\ llm_response.kind \notin {"none", "list"}
    \/ page = "agent" /\ llm_response.kind = "list" /\ llm_response.items # <<>>
    \/ page = "static" /\ \E i \in DOMAIN document : WordsIn(document[i]) > 150

\* C24: analyze_document of the first agent revision, and of the rule-based
\* page, never returns an empty list; a Success entry is returned only as
\* the sole element; when the checks have found any defect, of whatever
\* severity, no Success entry is returned; and when a defect found is High or
\* Critical, the list returned is the list of the defects found, unchanged.
C24_SuccessMarker ==
    (pc = "done" /\ page \in {"agent", "static"}) =>
        /\ defects # <<>>
        /\ SuccessEntries # {} => Len(defects) = 1
        /\ (SomethingWrong \/ FoundByChecks # <<>>) => SuccessEntries = {}
        /\ (page = "agent" /\ Loaded /\ AnySeverity(FoundByChecks, {"High", "Critical"}))
              => defects = FoundByChecks

\* the agent page returns findings of severity Medium and Low only, with
\* none of severity Success among them
C24_Witness ==
    /\ pc = "done" /\ page = "agent" /\ Loaded
    /\ Len(FoundByChecks) >= 2
    /\ ~ AnySeverity(FoundByChecks, {"High", "Critical"})
    /\ defects = FoundByChecks

-----------------------------------------------------------------------------
(* C21, C25: the bulk mailers. *)

Entries(event) == {k \in DOMAIN log : log[k].event = event}

\* the rows that ended as sent, as skipped with a message, or as failed with
\* a message, in the order in which they ended
RowsEnded ==
    SelectSeq(log, LAMBDA c : \/ c.event = "skipped"
                              \/ c.event = "as_string"
                              \/ c.event = "sendmail")

\* the mailer has returned after a login that succeeded, with a CSV that
\* could be read and has the three columns
ReturnedAfterLogin ==
    /\ script \in {"gmail", "outlook"}
    /\ mail_pc = "returned"
    /\ logged_in
    /\ csv_data.kind = "table" /\ csv_data.columns = "all"

\* C21: after a connection and a login that succeeded, every row of the CSV
\* is processed once, in order, and ends as sent, skipped with a message or
\* failed with a message, so that on return success_count plus the number of
\* messages is the number of rows.
C21_PerRecipientIsolation ==
    ReturnedAfterLogin =>
        /\ Len(RowsEnded) = Len(csv_data.rows)
        /\ \A k \in DOMAIN RowsEnded : RowsEnded[k].row = k
        /\ success_count + Len(fail_messages) = Len(csv_data.rows)

\* C25: in both mailers no message is submitted before a login that
\* succeeded, and whenever a server object was made, quit has been called on
\* it exactly once when the function is left, and never more than once
\* before.  send_emails_from_data of the Gmail page returns no success and
\* one message, without having opened a connection, on a CSV that cannot be
\* read or lacks a column; send_emails_from_csv of the Outlook script reads
\* the CSV only after it has connected and logged in.
C25_SessionLifecycle ==
    /\ \A k \in Entries("sendmail") : \E j \in Entries("login") : j < k /\ log[j].ok
    /\ (script = "gmail" /\ mail_pc \in {"returned", "raised"}
        /\ (csv_data.kind = "unreadable" \/ csv_data.columns # "all"))
          => /\ mail_pc = "returned"
             /\ success_count = 0
             /\ Len(fail_messages) = 1
             /\ log = <<>>
             /\ server = "None"
    /\ (script = "outlook" /\ mail_pc \in {"read", "loop"})
          => /\ logged_in
             /\ \E k \in Entries("connect") : log[k].ok
    /\ Cardinality(Entries("quit")) <= 1
    /\ mail_pc \in {"returned", "raised"}
          => Cardinality(Entries("quit")) = IF server # "None" THEN 1 ELSE 0

\* the Gmail mailer has returned after starttls failed on port 587: a server
\* object was made, nobody logged in, and quit was called once
C25_Witness ==
    /\ script = "gmail"
    /\ mail_pc = "returned"
    /\ smtp_port = 587
    /\ server = "quit"
    /\ ~ logged_in
    /\ Entries("login") = {}
    /\ Cardinality(Entries("quit")) = 1

====
